---- MODULE Spec2Model ----
(***************************************************************************)
(* Model of minisweagent/utils/bash_parser.py (extract_executables and its *)
(* helpers) and of the confirmation logic of                               *)
(* minisweagent/agents/interactive.py (InteractiveAgent).                  *)
(*                                                                         *)
(* A Python str is a sequence of one-character strings, so that the        *)
(* character-level functions (startswith, split, the shlex tokenizer, the  *)
(* heredoc regex, dedent) are computed the way the code computes them.     *)
(* Optional values (str | None) are sequences of length 0 or 1.            *)
(***************************************************************************)
EXTENDS Integers, Sequences, FiniteSets, TLC

VARIABLES
    pc,          \* position of the running call
    words,       \* _append_command_words: the words of one simple command
    out,         \* _append_command_words / _walk: the running output list
    cmdline,     \* extract_executables: the input text
    bashlex,     \* TRUE when the bashlex module was imported (line 8-11)
    parsed,      \* ghost: the texts handed to bashlex.parse, in call order
    trees,       \* the trees bashlex.parse returned
    visits,      \* ghost: ids of the command nodes handed to _handle_command_node
    tokens,      \* fallback path: the tokens shlex produced
    events,      \* ghost: what happened in the call, in order
    result,      \* the value returned to the caller
    raised,      \* TRUE when an exception left the call
    mode,        \* InteractiveAgent.config.mode
    whitelist_actions, \* InteractiveAgent.config.whitelist_actions
    confirm_exit,      \* InteractiveAgent.config.confirm_exit
    commands,    \* execute_actions: the commands of the message's actions
    answer,      \* ghost: the stripped answer to the confirmation prompt
    asked,       \* ghost: TRUE when the confirmation prompt was shown
    handled,     \* execute_actions: actions the loop of line 105 has passed
    executed,    \* ghost: number of actions of the message that were run
    interrupted  \* the interrupt_type of the UserInterruption raised, if any

vars == <<pc, words, out, cmdline, bashlex, parsed, trees, visits, tokens,
          events, result, raised, mode, whitelist_actions, confirm_exit,
          commands, answer, asked, handled, executed, interrupted>>

extractorVars == <<cmdline, bashlex, parsed, trees, visits, tokens, events,
                   result, raised>>
agentVars == <<mode, whitelist_actions, confirm_exit, commands, answer, asked,
               handled, executed, interrupted>>

----------------------------------------------------------------------------
(* Characters and strings *)

Letters ==
    {"a","b","c","d","e","f","g","h","i","j","k","l","m","n","o","p","q","r",
     "s","t","u","v","w","x","y","z","A","B","C","D","E","F","G","H","I","J",
     "K","L","M","N","O","P","Q","R","S","T","U","V","W","X","Y","Z"}

Digits == {"0","1","2","3","4","5","6","7","8","9"}

isalpha(ch) == ch \in Letters

isalnum(ch) == ch \in Letters \cup Digits

\* s.startswith(p)
startswith(s, p) == Len(s) >= Len(p) /\ SubSeq(s, 1, Len(p)) = p

\* 1-based index of the first occurrence of ch in s, 0 when absent (s.find + 1)
RECURSIVE FindFrom(_, _, _)
FindFrom(s, ch, i) ==
    IF i > Len(s) THEN 0
    ELSE IF s[i] = ch THEN i
    ELSE FindFrom(s, ch, i + 1)

RECURSIVE Flatten(_)
Flatten(ss) == IF ss = <<>> THEN <<>> ELSE Head(ss) \o Flatten(Tail(ss))

\* " ".join(ws)
RECURSIVE JoinSp(_)
JoinSp(ws) ==
    IF ws = <<>> THEN <<>>
    ELSE IF Len(ws) = 1 THEN ws[1]
    ELSE ws[1] \o <<" ">> \o JoinSp(Tail(ws))

\* all sequences over S of length at most n
SeqsUpTo(S, n) == UNION {[1..k -> S] : k \in 0..n}

\* str | None
None == <<>>
Some(x) == <<x>>

----------------------------------------------------------------------------
(* Heuristic tables, bash_parser.py lines 16-37 *)

w_sudo == <<"s","u","d","o">>
w_env == <<"e","n","v">>
w_command == <<"c","o","m","m","a","n","d">>
w_builtin == <<"b","u","i","l","t","i","n">>
w_time == <<"t","i","m","e">>
w_nice == <<"n","i","c","e">>
w_nohup == <<"n","o","h","u","p">>
w_chronic == <<"c","h","r","o","n","i","c">>
w_stdbuf == <<"s","t","d","b","u","f">>
w_setpriv == <<"s","e","t","p","r","i","v">>
w_chpst == <<"c","h","p","s","t">>
w_gosu == <<"g","o","s","u">>
w_su == <<"s","u">>
w_chroot == <<"c","h","r","o","o","t">>
w_ionice == <<"i","o","n","i","c","e">>
w_taskset == <<"t","a","s","k","s","e","t">>

_WRAPPERS ==
    {w_sudo, w_env, w_command, w_builtin, w_time, w_nice, w_nohup, w_chronic,
     w_stdbuf, w_setpriv, w_chpst, w_gosu, w_su, w_chroot, w_ionice, w_taskset}

_COMMAND_SEPARATORS ==
    {<<"|">>, <<"|","|">>, <<"&">>, <<"&","&">>, <<";">>, <<";",";">>,
     <<"(">>, <<")">>}

_REDIRECTION_TOKENS ==
    {<<"<">>, <<">">>, <<"<","<">>, <<">",">">>, <<"<","<","<">>, <<"<",">">>,
     <<">","&">>, <<"<","&">>, <<">","|">>, <<"<","<","-">>}

_NON_COMMAND_TOKENS == {<<"$">>, <<"!">>, <<"{">>}

\* the option sets tested inside _infer_wrapped_command
EnvArgOptions == {<<"-","u">>, <<"-","-","u","n","s","e","t">>}

SudoArgOptions ==
    {<<"-","u">>, <<"-","g">>, <<"-","h">>, <<"-","p">>, <<"-","U">>,
     <<"-","t">>, <<"-","C">>}

SimpleWrappers ==
    {w_time, w_nice, w_nohup, w_chronic, w_stdbuf, w_setpriv, w_chpst, w_gosu,
     w_su, w_chroot, w_ionice, w_taskset}

DashDash == <<"-","-">>
Dash == <<"-">>

----------------------------------------------------------------------------
(* Word/Wrapper Resolver, bash_parser.py lines 103-227 *)

\* name, _ = s.split("=", 1): the text before the first "="
AssignmentName(s) == SubSeq(s, 1, FindFrom(s, "=", 1) - 1)

\* mutant: the test of the first character of the name is dropped
_looks_like_assignment_word_any_start(s) ==
    IF FindFrom(s, "=", 1) = 0 THEN FALSE
    ELSE LET name == AssignmentName(s) IN
         IF name = <<>> THEN FALSE
         ELSE \A k \in 1..Len(name) : isalnum(name[k]) \/ name[k] = "_"

_looks_like_assignment_word(s) ==
    IF FindFrom(s, "=", 1) = 0 THEN FALSE
    ELSE LET name == AssignmentName(s) IN
         IF name = <<>> THEN FALSE
         ELSE IF ~(isalpha(name[1]) \/ name[1] = "_") THEN FALSE
         ELSE \A k \in 1..Len(name) : isalnum(name[k]) \/ name[k] = "_"

\* The loops of _infer_wrapped_command.  j is the 1-based loop index; a loop
\* ends by "return a" (ret = Some(a)), by "break" (brk) or by running off args.
LoopEnd(j, brk, ret) == [j |-> j, brk |-> brk, ret |-> ret]

RECURSIVE EnvLoop(_, _)
EnvLoop(args, j) ==
    IF j > Len(args) THEN LoopEnd(j, FALSE, None)
    ELSE LET a == args[j] IN
         IF a = DashDash THEN LoopEnd(j + 1, TRUE, None)
         ELSE IF startswith(a, Dash) THEN
              IF a \in EnvArgOptions /\ j + 1 <= Len(args)
              THEN EnvLoop(args, j + 2)
              ELSE EnvLoop(args, j + 1)
         ELSE IF _looks_like_assignment_word(a) THEN EnvLoop(args, j + 1)
         ELSE LoopEnd(j, FALSE, Some(a))

RECURSIVE SkipAssignments(_, _)
SkipAssignments(ws, j) ==
    IF j <= Len(ws) /\ _looks_like_assignment_word(ws[j])
    THEN SkipAssignments(ws, j + 1)
    ELSE j

\* mutant: the assignment words after "--" are not skipped
InferEnv_no_skip_after_dashdash(args) ==
    LET e == EnvLoop(args, 1) IN
    IF e.ret # None THEN e.ret
    ELSE IF e.j <= Len(args) THEN Some(args[e.j])
    ELSE None

InferEnv(args) ==
    LET e == EnvLoop(args, 1) IN
    IF e.ret # None THEN e.ret
    ELSE IF e.j <= Len(args) THEN
         LET k == SkipAssignments(args, e.j) IN
         IF k <= Len(args) THEN Some(args[k]) ELSE None
    ELSE None

\* mutant: no sudo option consumes the word after it
RECURSIVE SudoLoop_no_option_argument(_, _)
SudoLoop_no_option_argument(args, j) ==
    IF j > Len(args) THEN LoopEnd(j, FALSE, None)
    ELSE LET a == args[j] IN
         IF a = DashDash THEN LoopEnd(j + 1, TRUE, None)
         ELSE IF startswith(a, Dash) THEN SudoLoop_no_option_argument(args, j + 1)
         ELSE LoopEnd(j, FALSE, Some(a))

RECURSIVE SudoLoop(_, _)
SudoLoop(args, j) ==
    IF j > Len(args) THEN LoopEnd(j, FALSE, None)
    ELSE LET a == args[j] IN
         IF a = DashDash THEN LoopEnd(j + 1, TRUE, None)
         ELSE IF startswith(a, Dash) THEN
              IF a \in SudoArgOptions /\ j + 1 <= Len(args)
              THEN SudoLoop(args, j + 2)
              ELSE SudoLoop(args, j + 1)
         ELSE LoopEnd(j, FALSE, Some(a))

InferSudo(args) ==
    LET e == SudoLoop(args, 1) IN
    IF e.ret # None THEN e.ret
    ELSE IF e.j <= Len(args) THEN Some(args[e.j])
    ELSE None

RECURSIVE SkipDashes(_, _)
SkipDashes(args, j) ==
    IF j <= Len(args) /\ startswith(args[j], Dash)
    THEN SkipDashes(args, j + 1)
    ELSE j

InferCommand(args) ==
    LET j == SkipDashes(args, 1) IN
    IF j <= Len(args) THEN Some(args[j]) ELSE None

RECURSIVE SimpleLoop(_, _)
SimpleLoop(args, j) ==
    IF j > Len(args) THEN LoopEnd(j, FALSE, None)
    ELSE LET a == args[j] IN
         IF a = DashDash THEN LoopEnd(j + 1, TRUE, None)
         ELSE IF startswith(a, Dash) THEN SimpleLoop(args, j + 1)
         ELSE LoopEnd(j, FALSE, Some(a))

InferSimple(args) ==
    LET e == SimpleLoop(args, 1) IN
    IF e.ret # None THEN e.ret
    ELSE IF e.j <= Len(args) THEN Some(args[e.j])
    ELSE None

_infer_wrapped_command(wrapper, args) ==
    IF args = <<>> THEN None
    ELSE IF wrapper = w_env THEN InferEnv(args)
    ELSE IF wrapper = w_sudo THEN InferSudo(args)
    ELSE IF wrapper \in {w_command, w_builtin} THEN InferCommand(args)
    ELSE IF wrapper \in SimpleWrappers THEN InferSimple(args)
    ELSE None

\* words[i + 1:] for the 1-based index i of the command name
ArgsAfter(ws, i) == SubSeq(ws, i + 1, Len(ws))

\* mutant: the skip-rule is applied again to a wrapped name that is a wrapper
RECURSIVE WrappedNames_multilevel(_, _)
WrappedNames_multilevel(cmd0, args) ==
    IF cmd0 \notin _WRAPPERS THEN <<>>
    ELSE LET w == _infer_wrapped_command(cmd0, args) IN
         IF w = None THEN <<>>
         ELSE LET k == CHOOSE n \in 1..Len(args) : args[n] = w[1] IN
              w \o WrappedNames_multilevel(w[1], ArgsAfter(args, k))

\* the wrapped name the resolver appends after cmd0 (lines 119-122)
WrappedNames(cmd0, args) ==
    IF cmd0 \in _WRAPPERS THEN _infer_wrapped_command(cmd0, args) ELSE <<>>

\* returns the new value of the list out
_append_command_words(ws, o) ==
    IF ws = <<>> THEN o
    ELSE LET i == SkipAssignments(ws, 1) IN
         IF i > Len(ws) THEN o
         ELSE o \o <<ws[i]>> \o WrappedNames(ws[i], ArgsAfter(ws, i))

----------------------------------------------------------------------------
(* Fallback Tokenizer Path, bash_parser.py lines 252-282 *)

\* shlex.shlex(cmdline, posix=True, punctuation_chars="|&;()<>") with
\* whitespace_split = True and commenters = "" (lines 255-257)
PunctuationChars == {"|", "&", ";", "(", ")", "<", ">"}
Whitespace == {" ", "\t", "\r", "\n"}
Quotes == {"'", "\""}
Escape == "\\"
EscapedQuotes == {"\""}

\* the value of list(lexer): ok = FALSE stands for ValueError
LexResult(ok, toks) == [ok |-> ok, tokens |-> toks]

\* shlex.read_token, called until it returns None.  st is the lexer state:
\* "sp" (' '), "a", "c", "bs" (in an escape) or the quote character being
\* read; esc is escapedstate; a pushed back character is one not consumed.
RECURSIVE Lex(_, _, _, _, _, _, _)
Lex(s, i, st, esc, tok, quoted, toks) ==
    LET eof == i > Len(s)
        c == IF eof THEN "" ELSE s[i]
        emit == Append(toks, tok)
    IN
    IF st = "sp" THEN
        IF eof THEN LexResult(TRUE, toks)
        ELSE IF c \in Whitespace THEN Lex(s, i + 1, "sp", esc, tok, quoted, toks)
        ELSE IF c = Escape THEN Lex(s, i + 1, "bs", "a", tok, quoted, toks)
        ELSE IF c \in PunctuationChars THEN Lex(s, i + 1, "c", esc, <<c>>, quoted, toks)
        ELSE IF c \in Quotes THEN Lex(s, i + 1, c, esc, tok, quoted, toks)
        ELSE Lex(s, i + 1, "a", esc, <<c>>, quoted, toks)
    ELSE IF st \in Quotes THEN
        IF eof THEN LexResult(FALSE, <<>>)
        ELSE IF c = st THEN Lex(s, i + 1, "a", esc, tok, TRUE, toks)
        ELSE IF c = Escape /\ st \in EscapedQuotes
             THEN Lex(s, i + 1, "bs", st, tok, TRUE, toks)
        ELSE Lex(s, i + 1, st, esc, Append(tok, c), TRUE, toks)
    ELSE IF st = "bs" THEN
        IF eof THEN LexResult(FALSE, <<>>)
        ELSE IF esc \in Quotes /\ c # Escape /\ c # esc
             THEN Lex(s, i + 1, esc, esc, tok \o <<Escape, c>>, quoted, toks)
        ELSE Lex(s, i + 1, esc, esc, Append(tok, c), quoted, toks)
    ELSE \* st \in {"a", "c"}
        IF eof THEN
            LexResult(TRUE, IF tok # <<>> \/ quoted THEN emit ELSE toks)
        ELSE IF c \in Whitespace THEN
            IF tok # <<>> \/ quoted
            THEN Lex(s, i + 1, "sp", " ", <<>>, FALSE, emit)
            ELSE Lex(s, i + 1, "sp", esc, tok, quoted, toks)
        ELSE IF st = "c" THEN
            IF c \in PunctuationChars
            THEN Lex(s, i + 1, "c", esc, Append(tok, c), quoted, toks)
            ELSE Lex(s, i, "sp", " ", <<>>, FALSE, emit)
        ELSE IF c \in Quotes THEN Lex(s, i + 1, c, esc, tok, quoted, toks)
        ELSE IF c = Escape THEN Lex(s, i + 1, "bs", "a", tok, quoted, toks)
        ELSE IF c \notin PunctuationChars
             THEN Lex(s, i + 1, "a", esc, Append(tok, c), quoted, toks)
        ELSE IF tok # <<>> \/ quoted
             THEN Lex(s, i, "sp", " ", <<>>, FALSE, emit)
             ELSE Lex(s, i, "sp", esc, tok, quoted, toks)

\* tokens = list(lexer)
Tokenize(s) == Lex(s, 1, "sp", " ", <<>>, FALSE, <<>>)

\* the while loop of lines 265-279: i is the 1-based index, ws the accumulator
\* "words", o the list "out"
ScanState(ws, o) == [words |-> ws, out |-> o]

\* mutant: a redirection operator consumes only itself
RECURSIVE ScanTokens_target_kept(_, _, _, _)
ScanTokens_target_kept(toks, i, ws, o) ==
    IF i > Len(toks) THEN ScanState(ws, o)
    ELSE LET token == toks[i] IN
         IF token \in _COMMAND_SEPARATORS
         THEN ScanTokens_target_kept(toks, i + 1, <<>>, _append_command_words(ws, o))
         ELSE IF token \in _REDIRECTION_TOKENS \/ token \in _NON_COMMAND_TOKENS
              THEN ScanTokens_target_kept(toks, i + 1, ws, o)
         ELSE ScanTokens_target_kept(toks, i + 1, Append(ws, token), o)

\* mutant: the accumulator is not reset at a separator
RECURSIVE ScanTokens_words_kept(_, _, _, _)
ScanTokens_words_kept(toks, i, ws, o) ==
    IF i > Len(toks) THEN ScanState(ws, o)
    ELSE LET token == toks[i] IN
         IF token \in _COMMAND_SEPARATORS
         THEN ScanTokens_words_kept(toks, i + 1, ws, _append_command_words(ws, o))
         ELSE IF token \in _REDIRECTION_TOKENS
              THEN ScanTokens_words_kept(toks, i + 2, ws, o)
         ELSE IF token \in _NON_COMMAND_TOKENS
              THEN ScanTokens_words_kept(toks, i + 1, ws, o)
         ELSE ScanTokens_words_kept(toks, i + 1, Append(ws, token), o)

RECURSIVE ScanTokens(_, _, _, _)
ScanTokens(toks, i, ws, o) ==
    IF i > Len(toks) THEN ScanState(ws, o)
    ELSE LET token == toks[i] IN
         IF token \in _COMMAND_SEPARATORS
         THEN ScanTokens(toks, i + 1, <<>>, _append_command_words(ws, o))
         ELSE IF token \in _REDIRECTION_TOKENS THEN ScanTokens(toks, i + 2, ws, o)
         ELSE IF token \in _NON_COMMAND_TOKENS THEN ScanTokens(toks, i + 1, ws, o)
         ELSE ScanTokens(toks, i + 1, Append(ws, token), o)

\* lines 262-282, for the token list of a successful tokenization
ExecutablesOfTokens(toks) ==
    LET e == ScanTokens(toks, 1, <<>>, <<>>) IN
    _append_command_words(e.words, e.out)

\* how a call ends: it returns a list or lets an exception out
Returned(v) == [raised |-> FALSE, value |-> v]
Raised == [raised |-> TRUE, value |-> <<>>]

\* mutant: ValueError is not caught
_extract_executables_without_bashlex_uncaught(s) ==
    LET t == Tokenize(s) IN
    IF ~t.ok THEN Raised ELSE Returned(ExecutablesOfTokens(t.tokens))

\* lines 252-282; ValueError gives []
_extract_executables_without_bashlex(s) ==
    LET t == Tokenize(s) IN
    IF ~t.ok THEN Returned(<<>>) ELSE Returned(ExecutablesOfTokens(t.tokens))

----------------------------------------------------------------------------
(* Heredoc normalization, bash_parser.py lines 242-249 *)

\* \s of the regular expression (the vertical tab has no TLA+ literal)
RegexSpace == {" ", "\t", "\n", "\r", "\f"}
IdentStart == Letters \cup {"_"}
IdentChar == Letters \cup Digits \cup {"_"}

CharAt(s, i) == IF i >= 1 /\ i <= Len(s) THEN s[i] ELSE ""

\* first index >= i whose character is not in S (Len(s) + 1 when none)
RECURSIVE SkipWhile(_, _, _)
SkipWhile(s, i, S) ==
    IF i <= Len(s) /\ s[i] \in S THEN SkipWhile(s, i + 1, S) ELSE i

\* a match of (<<-?\s*)(['"])([A-Za-z_][A-Za-z0-9_]*)\2 starting at i:
\* q is the index of the opening quote, e the index of the closing one
HeredocMatch(s, i) ==
    LET d == IF CharAt(s, i + 2) = "-" THEN i + 3 ELSE i + 2
        q == SkipWhile(s, d, RegexSpace)
        e == SkipWhile(s, q + 1, IdentChar)
    IN  [ok |-> /\ CharAt(s, i) = "<"
                /\ CharAt(s, i + 1) = "<"
                /\ CharAt(s, q) \in {"'", "\""}
                /\ CharAt(s, q + 1) \in IdentStart
                /\ CharAt(s, e) = CharAt(s, q),
         q |-> q, e |-> e]

\* re.sub(pattern, r"\1\3", src): leftmost non-overlapping matches
RECURSIVE NormalizeHeredocs(_, _)
NormalizeHeredocs(s, i) ==
    IF i > Len(s) THEN <<>>
    ELSE LET m == HeredocMatch(s, i) IN
         IF m.ok
         THEN SubSeq(s, i, m.q - 1) \o SubSeq(s, m.q + 1, m.e - 1)
                  \o NormalizeHeredocs(s, m.e + 1)
         ELSE <<s[i]>> \o NormalizeHeredocs(s, i + 1)

\* text.split("\n")
RECURSIVE SplitLines(_)
SplitLines(s) ==
    LET n == FindFrom(s, "\n", 1) IN
    IF n = 0 THEN <<s>>
    ELSE <<SubSeq(s, 1, n - 1)>> \o SplitLines(SubSeq(s, n + 1, Len(s)))

\* "\n".join(lines)
RECURSIVE JoinLines(_)
JoinLines(ls) ==
    IF Len(ls) = 1 THEN ls[1]
    ELSE ls[1] \o <<"\n">> \o JoinLines(Tail(ls))

Blank == {" ", "\t"}

\* _whitespace_only_re.sub('', text), on one line
BlankLine(l) == IF SkipWhile(l, 1, Blank) > Len(l) THEN <<>> ELSE l

\* _leading_whitespace_re.findall(text): the indents of the lines with text
Indent(l) == SubSeq(l, 1, SkipWhile(l, 1, Blank) - 1)

RECURSIVE Indents(_)
Indents(ls) ==
    IF ls = <<>> THEN <<>>
    ELSE (IF Head(ls) = <<>> THEN <<>> ELSE <<Indent(Head(ls))>>)
             \o Indents(Tail(ls))

\* the first index at which a and b differ
RECURSIVE FirstDifference(_, _, _)
FirstDifference(a, b, i) ==
    IF i > Len(a) \/ i > Len(b) \/ a[i] # b[i] THEN i
    ELSE FirstDifference(a, b, i + 1)

\* the loop over indents of textwrap.dedent, margin = None being <<None>>
RECURSIVE Margin(_, _)
Margin(indents, margin) ==
    IF indents = <<>> THEN margin
    ELSE LET indent == Head(indents) IN
         Margin(Tail(indents),
                IF margin = None THEN Some(indent)
                ELSE IF startswith(indent, margin[1]) THEN margin
                ELSE IF startswith(margin[1], indent) THEN Some(indent)
                ELSE Some(SubSeq(margin[1], 1,
                                 FirstDifference(margin[1], indent, 1) - 1)))

\* textwrap.dedent(text)
dedent(text) ==
    LET ls == [k \in 1..Len(SplitLines(text)) |-> BlankLine(SplitLines(text)[k])]
        margin == Margin(Indents(ls), None)
        cut(l) == IF startswith(l, margin[1])
                  THEN SubSeq(l, Len(margin[1]) + 1, Len(l)) ELSE l
    IN  IF margin = None \/ margin = Some(<<>>) THEN JoinLines(ls)
        ELSE JoinLines([k \in 1..Len(ls) |-> cut(ls[k])])

_bashlex_fallback_source(src) == dedent(NormalizeHeredocs(src, 1))

----------------------------------------------------------------------------
(* Python objects reached by the tree traversal.  A syntax-tree node is an   *)
(* object with an ordered __dict__; id is the identity of the object, so    *)
(* that one object held by two fields is told from two equal objects.       *)

PyNone == [t |-> "none"]
PyInt == [t |-> "int"]
PyStr(x) == [t |-> "str", s |-> x]
PyList(xs) == [t |-> "list", items |-> xs]
PyTuple(xs) == [t |-> "tuple", items |-> xs]
Attr(name, value) == [name |-> name, value |-> value]
PyNode(id, attrs) == [t |-> "node", id |-> id, dict |-> attrs]

\* getattr(x, name, None)
getattr(x, name) ==
    IF x.t = "node" /\ \E k \in 1..Len(x.dict) : x.dict[k].name = name
    THEN x.dict[CHOOSE k \in 1..Len(x.dict) : x.dict[k].name = name].value
    ELSE PyNone

\* getattr(x, "kind", None) == k
KindIs(x, k) == getattr(x, "kind").t = "str" /\ getattr(x, "kind").s = k

\* lines 311-313
_is_ast_node(x) == x.t = "node" /\ \E k \in 1..Len(x.dict) : x.dict[k].name = "kind"

RECURSIVE SelectNodes(_)
SelectNodes(xs) ==
    IF xs = <<>> THEN <<>>
    ELSE (IF _is_ast_node(Head(xs)) THEN <<Head(xs)>> ELSE <<>>)
             \o SelectNodes(Tail(xs))

\* the children contributed by one value of node.__dict__ (lines 300-307)
ChildrenOfValue(v) ==
    IF v.t = "none" THEN <<>>
    ELSE IF _is_ast_node(v) THEN <<v>>
    ELSE IF v.t \in {"list", "tuple"} THEN SelectNodes(v.items)
    ELSE <<>>

RECURSIVE ChildrenOfDict(_)
ChildrenOfDict(d) ==
    IF d = <<>> THEN <<>>
    ELSE ChildrenOfValue(Head(d).value) \o ChildrenOfDict(Tail(d))

\* lines 285-308
_iter_children(node) ==
    IF node.t # "node" THEN <<>> ELSE ChildrenOfDict(node.dict)

\* lines 230-239
_word_text(word_node) ==
    LET w == getattr(word_node, "word")
        v == getattr(word_node, "value")
    IN  IF w.t = "str" THEN Some(w.s)
        ELSE IF v.t = "str" THEN Some(v.s)
        ELSE None

\* the loop of lines 92-98
RECURSIVE WordsOfParts(_)
WordsOfParts(ps) ==
    IF ps = <<>> THEN <<>>
    ELSE (IF KindIs(Head(ps), "word") THEN _word_text(Head(ps)) ELSE <<>>)
             \o WordsOfParts(Tail(ps))

\* the traversal carries the list out and, as a ghost, the ids of the nodes
\* handed to _handle_command_node
WalkState(o, v) == [out |-> o, visits |-> v]

\* lines 86-100
_handle_command_node(cmd_node, acc) ==
    LET parts == getattr(cmd_node, "parts")
        seen == Append(acc.visits, cmd_node.id)
    IN  IF parts.t # "list" THEN WalkState(acc.out, seen)
        ELSE WalkState(_append_command_words(WordsOfParts(parts.items), acc.out),
                       seen)

\* lines 71-83
RECURSIVE _walk(_, _)
RECURSIVE WalkAll(_, _)
_walk(node, acc) ==
    IF node.t = "none" THEN acc
    ELSE WalkAll(_iter_children(node),
                 IF KindIs(node, "command")
                 THEN _handle_command_node(node, acc) ELSE acc)

\* for child in ...: _walk(child, out)   (also lines 66-67, over the trees)
WalkAll(nodes, acc) ==
    IF nodes = <<>> THEN acc
    ELSE WalkAll(Tail(nodes), _walk(Head(nodes), acc))

----------------------------------------------------------------------------
(* The trees bashlex.parse returns (line 56).  bashlex is a library outside  *)
(* the repository; these are the shapes of its ast.node objects.            *)

Pos == Attr("pos", PyTuple(<<PyInt, PyInt>>))
Kind(k) == Attr("kind", PyStr(k))

WordNode(id, w, parts) ==
    PyNode(id, <<Kind("word"), Attr("word", PyStr(w)),
                 Attr("parts", PyList(parts)), Pos>>)
AssignmentNode(id, w) ==
    PyNode(id, <<Kind("assignment"), Attr("word", PyStr(w)),
                 Attr("parts", PyList(<<>>)), Pos>>)
ReservedWordNode(id, w) ==
    PyNode(id, <<Kind("reservedword"), Attr("word", PyStr(w)), Pos>>)
PipeNode(id) == PyNode(id, <<Kind("pipe"), Attr("pipe", PyStr(<<"|">>)), Pos>>)
OperatorNode(id, op) == PyNode(id, <<Kind("operator"), Attr("op", PyStr(op)), Pos>>)
RedirectNode(id, type, output) ==
    PyNode(id, <<Kind("redirect"), Attr("input", PyNone), Attr("type", PyStr(type)),
                 Attr("output", output), Attr("heredoc", PyNone), Pos>>)
CommandNode(id, parts) ==
    PyNode(id, <<Kind("command"), Attr("parts", PyList(parts)), Pos>>)
PipelineNode(id, parts) ==
    PyNode(id, <<Kind("pipeline"), Attr("parts", PyList(parts)), Pos>>)
ListNode(id, parts) ==
    PyNode(id, <<Kind("list"), Attr("parts", PyList(parts)), Pos>>)
CompoundNode(id, list) ==
    PyNode(id, <<Kind("compound"), Attr("list", PyList(list)),
                 Attr("redirects", PyList(<<>>)), Pos>>)
CommandSubstitutionNode(id, command) ==
    PyNode(id, <<Kind("commandsubstitution"), Attr("command", command), Pos>>)
\* bashlex builds a function node with its name and body objects both as the
\* fields name, body and as members of the list parts
FunctionNode(id, name, body, parts) ==
    PyNode(id, <<Kind("function"), Attr("name", name), Attr("body", body),
                 Attr("parts", PyList(parts)), Pos>>)

\* s.split(ch)
RECURSIVE SplitOn(_, _)
SplitOn(s, ch) ==
    LET n == FindFrom(s, ch, 1) IN
    IF n = 0 THEN <<s>>
    ELSE <<SubSeq(s, 1, n - 1)>> \o SplitOn(SubSeq(s, n + 1, Len(s)), ch)

NonEmpty(x) == x # <<>>

\* the characters of a plain word: no quoting, expansion or operator character
PlainChars == Letters \cup Digits \cup {"_", "-", "=", ".", "/"}

\* the stages of a pipeline text, each the list of its blank-separated words
StageWords(text) == SelectSeq(SplitOn(text, " "), NonEmpty)
Stages(text) ==
    [k \in 1..Len(SplitOn(text, "|")) |-> StageWords(SplitOn(text, "|")[k])]

\* words the shell grammar reserves; they are no plain words
ReservedWords == {w_time}

\* one or more simple commands made of plain words, joined by "|"
IsSimplePipeline(text) ==
    /\ \A k \in 1..Len(text) : text[k] \in PlainChars \cup {" ", "|"}
    /\ \A k \in 1..Len(Stages(text)) :
          /\ Stages(text)[k] # <<>>
          /\ \A n \in 1..Len(Stages(text)[k]) :
                Stages(text)[k][n] \notin ReservedWords

\* the shell reads NAME=... before the command name as an assignment
ShellAssignment(w) ==
    \E k \in 2..Len(w) :
        /\ w[k] = "="
        /\ w[1] \in IdentStart
        /\ \A n \in 1..(k - 1) : w[n] \in IdentChar

RECURSIVE CommandParts(_, _, _, _)
CommandParts(base, ws, j, leading) ==
    IF j > Len(ws) THEN <<>>
    ELSE IF leading /\ ShellAssignment(ws[j])
         THEN <<AssignmentNode(base + j, ws[j])>> \o CommandParts(base, ws, j + 1, TRUE)
         ELSE <<WordNode(base + j, ws[j], <<>>)>> \o CommandParts(base, ws, j + 1, FALSE)

SimpleCommand(base, ws) == CommandNode(base, CommandParts(base, ws, 1, TRUE))

StageNodes(st, k) == <<SimpleCommand(100 * k, st[k])>>

RECURSIVE PipelineParts(_, _)
PipelineParts(st, k) ==
    StageNodes(st, k)
        \o (IF k = Len(st) THEN <<>>
            ELSE <<PipeNode(100 * k + 98)>> \o PipelineParts(st, k + 1))

\* a single command is returned as a command node, several as one pipeline node
PipelineTrees(st) ==
    LET parts == PipelineParts(st, 1) IN
    IF Len(parts) = 1 THEN parts ELSE <<PipelineNode(1, parts)>>

\* trees of other inputs, with words a, b, c
TreeSimple(a, b) ==
    <<CommandNode(10, <<WordNode(11, a, <<>>), WordNode(12, b, <<>>)>>)>>

TreePipeline(a, b, c) ==
    <<PipelineNode(1, <<CommandNode(10, <<WordNode(11, a, <<>>)>>),
                        PipeNode(19),
                        CommandNode(20, <<WordNode(21, b, <<>>),
                                          WordNode(22, c, <<>>)>>)>>)>>

\* a $(b); c
TreeSubstitution(a, b, c) ==
    <<ListNode(1,
        <<CommandNode(10,
            <<WordNode(11, a, <<>>),
              WordNode(12, <<"$", "(">> \o b \o <<")">>,
                <<CommandSubstitutionNode(13,
                    CommandNode(20, <<WordNode(21, b, <<>>)>>))>>)>>),
          OperatorNode(18, <<";">>),
          CommandNode(30, <<WordNode(31, c, <<>>)>>)>>)>>

\* F=1 a > b
TreeRedirect(a, b) ==
    <<CommandNode(10, <<AssignmentNode(11, <<"F", "=", "1">>),
                        WordNode(12, a, <<>>),
                        RedirectNode(13, <<">">>, WordNode(14, b, <<>>))>>)>>

\* ( a b )
TreeSubshell(a, b) ==
    <<CompoundNode(1, <<ReservedWordNode(2, <<"(">>),
                        CommandNode(10, <<WordNode(11, a, <<>>),
                                          WordNode(12, b, <<>>)>>),
                        ReservedWordNode(3, <<")">>)>>)>>

\* two lines, a and b: one tree per line
TreeLines(a, b) ==
    <<CommandNode(10, <<WordNode(11, a, <<>>)>>),
      CommandNode(20, <<WordNode(21, b, <<>>)>>)>>

\* f() { a b; }
FunctionName == WordNode(11, <<"f">>, <<>>)
FunctionBody(a, b) ==
    CompoundNode(20,
        <<ReservedWordNode(21, <<"{">>),
          ListNode(25, <<CommandNode(30, <<WordNode(31, a, <<>>),
                                           WordNode(32, b, <<>>)>>),
                         OperatorNode(33, <<";">>)>>),
          ReservedWordNode(22, <<"}">>)>>)
TreeFunction(a, b) ==
    <<FunctionNode(1, FunctionName, FunctionBody(a, b),
                   <<FunctionName, ReservedWordNode(12, <<"(">>),
                     ReservedWordNode(13, <<")">>), FunctionBody(a, b)>>)>>

\* the value of bashlex.parse(text): a list of trees, or an exception
Parsed(ts) == [ok |-> TRUE, trees |-> ts]
ParseFailure == [ok |-> FALSE, trees |-> <<>>]

\* what the parser may do with a text that is no simple pipeline
OtherParses ==
    {ParseFailure, Parsed(<<>>),
     Parsed(TreeSimple(<<"l","s">>, <<"x">>)),
     Parsed(TreeFunction(<<"l","s">>, <<"x">>))}

\* the outcomes of bashlex.parse(text): a simple pipeline parses to its tree
bashlex_parse(text) ==
    IF IsSimplePipeline(text)
    THEN {Parsed(PipelineTrees(Stages(text)))}
    ELSE OtherParses

----------------------------------------------------------------------------
(* Inputs of the resolver *)

MaxWords == 4

w_ls == <<"l","s">>
w_x == <<"x">>
w_dash_u == <<"-","u">>
w_dash_i == <<"-","i">>
w_unset == <<"-","-","u","n","s","e","t">>
w_assign == <<"F","=","1">>
w_digit_assign == <<"1","a","=","b">>
w_empty_name == <<"=","x">>

\* wrappers of each rule, plain names, options, "--", assignments and words
\* with "=" that are no assignments
Vocabulary ==
    {w_sudo, w_env, w_time, w_command, w_ls, w_dash_u, w_dash_i, DashDash,
     w_unset, w_assign, w_digit_assign, w_empty_name}

WordLists == SeqsUpTo(Vocabulary, MaxWords)

\* the list out when the resolver is called: empty or holding earlier names
PriorOutputs == {<<>>, <<w_x>>}

\* values of the variables a specification does not use
IdleExtractor ==
    /\ cmdline = <<>>
    /\ bashlex = FALSE
    /\ parsed = <<>>
    /\ trees = <<>>
    /\ visits = <<>>
    /\ tokens = <<>>
    /\ events = <<>>
    /\ result = <<>>
    /\ raised = FALSE

IdleAgent ==
    /\ mode = "confirm"
    /\ whitelist_actions = <<>>
    /\ confirm_exit = TRUE
    /\ commands = <<>>
    /\ answer = None
    /\ asked = FALSE
    /\ handled = 0
    /\ executed = 0
    /\ interrupted = None

InitResolver ==
    /\ pc = "resolve"
    /\ words \in WordLists
    /\ out \in PriorOutputs
    /\ IdleExtractor
    /\ IdleAgent

\* one call _append_command_words(words, out)
AppendCommandWords ==
    /\ pc = "resolve"
    /\ out' = _append_command_words(words, out)
    /\ pc' = "resolved"
    /\ UNCHANGED <<words, extractorVars, agentVars>>

NextResolver == AppendCommandWords

SpecResolver == InitResolver /\ [][NextResolver]_vars

----------------------------------------------------------------------------
(* Extractor Facade, bash_parser.py lines 40-68 *)

MaxPieces == 4

\* the input text is built from these pieces, joined by blanks: plain words
\* (a wrapper, the reserved word time, an assignment), the pipe, an opening
\* quote, a heredoc with a quoted delimiter, and an indentation
Pieces ==
    {w_ls, w_sudo, w_time, w_assign, <<"|">>, <<"'">>,
     <<"<", "<", "'", "E", "'">>, <<" ">>}

CommandLines == {JoinSp(ps) : ps \in SeqsUpTo(Pieces, MaxPieces)}

IdleResolver == words = <<>> /\ out = <<>>

Init ==
    /\ pc = "start"
    /\ cmdline \in CommandLines
    /\ bashlex \in BOOLEAN
    /\ parsed = <<>>
    /\ trees = <<>>
    /\ visits = <<>>
    /\ tokens = <<>>
    /\ events = <<>>
    /\ result = <<>>
    /\ raised = FALSE
    /\ IdleResolver
    /\ IdleAgent

\* lines 52-53: without bashlex the call is _extract_executables_without_bashlex
FallbackPath ==
    /\ pc = "start"
    /\ ~bashlex
    /\ LET t == Tokenize(cmdline)
           r == _extract_executables_without_bashlex(cmdline)
       IN  /\ tokens' = t.tokens
           /\ events' = Append(events, IF t.ok THEN "tokenized" ELSE "ValueError")
           /\ result' = r.value
           /\ raised' = r.raised
    /\ pc' = "returned"
    /\ UNCHANGED <<cmdline, bashlex, parsed, trees, visits, words, out, agentVars>>

\* lines 55-57: trees = bashlex.parse(cmdline)
ParseFirst ==
    /\ pc = "start"
    /\ bashlex
    /\ parsed' = Append(parsed, cmdline)
    /\ \E r \in bashlex_parse(cmdline) :
        /\ trees' = r.trees
        /\ events' = Append(events, IF r.ok THEN "parsed" ELSE "parse failed")
        /\ pc' = IF r.ok THEN "walk" ELSE "retry"
    /\ UNCHANGED <<cmdline, bashlex, visits, tokens, result, raised, words, out,
                   agentVars>>

\* mutant: the retry parses the original text again
RetrySource_original(src) == src

\* the text of the second parse (line 60)
RetrySource(src) == _bashlex_fallback_source(src)

\* how the call ends when the second parse fails too (lines 61-63)
SecondFailure == Returned(<<>>)

\* lines 58-63: the retry on the normalized text
ParseSecond ==
    /\ pc = "retry"
    /\ parsed' = Append(parsed, RetrySource(cmdline))
    /\ \E r \in bashlex_parse(RetrySource(cmdline)) :
        /\ trees' = r.trees
        /\ events' = Append(events, IF r.ok THEN "parsed" ELSE "parse failed")
        /\ pc' = IF r.ok THEN "walk" ELSE "returned"
        /\ result' = IF r.ok THEN result ELSE SecondFailure.value
        /\ raised' = IF r.ok THEN raised ELSE SecondFailure.raised
    /\ UNCHANGED <<cmdline, bashlex, visits, tokens, words, out, agentVars>>

\* lines 65-68: out = []; for t in trees: _walk(t, out); return out
WalkTrees ==
    /\ pc = "walk"
    /\ LET w == WalkAll(trees, WalkState(<<>>, <<>>)) IN
        /\ out' = w.out
        /\ visits' = w.visits
        /\ result' = w.out
    /\ events' = Append(events, "walked")
    /\ pc' = "returned"
    /\ UNCHANGED <<cmdline, bashlex, parsed, trees, tokens, raised, words,
                   agentVars>>

Next == FallbackPath \/ ParseFirst \/ ParseSecond \/ WalkTrees

Spec == Init /\ [][Next]_vars

----------------------------------------------------------------------------
(* The fallback path on every token sequence *)

MaxTokens == 4

\* words, separators, redirection operators and marker symbols
TokenVocabulary ==
    {w_ls, w_sudo, w_dash_u, w_assign, <<"|">>, <<";">>, <<"&", "&">>,
     <<">">>, <<"<", "<">>, <<"$">>, <<"!">>}

TokenLines == {JoinSp(ts) : ts \in SeqsUpTo(TokenVocabulary, MaxTokens)}

InitFallback ==
    /\ pc = "start"
    /\ cmdline \in TokenLines
    /\ bashlex = FALSE
    /\ parsed = <<>>
    /\ trees = <<>>
    /\ visits = <<>>
    /\ tokens = <<>>
    /\ events = <<>>
    /\ result = <<>>
    /\ raised = FALSE
    /\ IdleResolver
    /\ IdleAgent

NextFallback == FallbackPath

SpecFallback == InitFallback /\ [][NextFallback]_vars

----------------------------------------------------------------------------
(* The traversal on the trees of the grammar engine *)

WalkWords == {w_ls, w_sudo, w_x, w_assign}

WalkCatalog ==
    {TreeSimple(a, b) : a \in WalkWords, b \in WalkWords} \cup
    {TreePipeline(a, b, c) : a \in WalkWords, b \in WalkWords, c \in WalkWords} \cup
    {TreeSubstitution(a, b, c) : a \in WalkWords, b \in WalkWords, c \in WalkWords} \cup
    {TreeRedirect(a, b) : a \in WalkWords, b \in WalkWords} \cup
    {TreeSubshell(a, b) : a \in WalkWords, b \in WalkWords} \cup
    {TreeLines(a, b) : a \in WalkWords, b \in WalkWords} \cup
    {TreeFunction(a, b) : a \in WalkWords, b \in WalkWords}

\* the state after bashlex.parse returned the trees
InitWalk ==
    /\ pc = "walk"
    /\ cmdline = <<>>
    /\ bashlex = TRUE
    /\ parsed = <<cmdline>>
    /\ trees \in WalkCatalog
    /\ visits = <<>>
    /\ tokens = <<>>
    /\ events = <<"parsed">>
    /\ result = <<>>
    /\ raised = FALSE
    /\ IdleResolver
    /\ IdleAgent

NextWalk == WalkTrees

SpecWalk == InitWalk /\ [][NextWalk]_vars

----------------------------------------------------------------------------
(* Properties of the Word/Wrapper Resolver *)

\* the step of one resolver call
Resolved == pc = "resolve" /\ pc' = "resolved"

\* the names the call appended to out
Appended == SubSeq(out', Len(out) + 1, Len(out'))
OutputKept == Len(out') >= Len(out) /\ SubSeq(out', 1, Len(out)) = out

\* w has the form IDENT=<anything>
IdentEquals(w) ==
    \E k \in 2..Len(w) :
        /\ w[k] = "="
        /\ w[1] \in Letters \cup {"_"}
        /\ \A n \in 1..(k - 1) : w[n] \in Letters \cup Digits \cup {"_"}

\* length of the maximal leading run of IDENT= words
LeadingAssignments(ws) ==
    CHOOSE k \in 0..Len(ws) :
        /\ \A n \in 1..k : IdentEquals(ws[n])
        /\ k = Len(ws) \/ ~IdentEquals(ws[k + 1])

HasCommandName(ws) == LeadingAssignments(ws) < Len(ws)
CommandName(ws) == ws[LeadingAssignments(ws) + 1]
CommandArgs(ws) == SubSeq(ws, LeadingAssignments(ws) + 2, Len(ws))

\* C2: the resolver skips the maximal leading run of IDENT=<anything> words
\* and appends the first remaining word as the command name; when the list is
\* empty or holds only such words it appends nothing and out is unchanged.
C2_AssignmentSkip ==
    [][Resolved =>
        /\ OutputKept
        /\ IF HasCommandName(words)
           THEN Appended # <<>> /\ Appended[1] = CommandName(words)
           ELSE out' = out]_vars

\* F=1 1a=b ls: F=1 is skipped and 1a=b, whose name starts with a digit, is
\* the command name
C2_Witness ==
    /\ pc = "resolved"
    /\ words = <<w_assign, w_digit_assign, w_ls>>
    /\ out = <<w_digit_assign>>

\* C3: a wrapper command name is followed by its inferred wrapped name and is
\* never replaced; no skip-rule is applied to the wrapped name; one simple
\* command contributes at most two names and a non-wrapper exactly one
\* (sudo env F=1 ls yields sudo, env).
C3_SingleLevelWrapper ==
    [][Resolved /\ HasCommandName(words) =>
        LET cmd0 == CommandName(words)
            inferred == _infer_wrapped_command(cmd0, CommandArgs(words))
        IN  /\ OutputKept
            /\ Len(Appended) \in {1, 2}
            /\ Appended[1] = cmd0
            /\ cmd0 \notin _WRAPPERS => Len(Appended) = 1
            /\ cmd0 \in _WRAPPERS => Appended = <<cmd0>> \o inferred
            /\ words = <<w_sudo, w_env, w_assign, w_ls>>
                  => Appended = <<w_sudo, w_env>>]_vars

C3_Witness ==
    /\ pc = "resolved"
    /\ words = <<w_sudo, w_env, w_assign, w_ls>>
    /\ out = <<w_x, w_sudo, w_env>>

\* the sudo rule as the claim words it: "--" ends the skipping and the word
\* after it is the wrapped command; a word starting with "-" is skipped, the
\* listed options together with the word after them
Drop(ws, n) == SubSeq(ws, n + 1, Len(ws))

RECURSIVE SudoWrapped(_)
SudoWrapped(args) ==
    IF args = <<>> THEN None
    ELSE IF Head(args) = <<"-","-">>
         THEN IF Tail(args) = <<>> THEN None ELSE Some(args[2])
    ELSE IF Head(args) # <<>> /\ Head(args)[1] = "-"
         THEN SudoWrapped(Drop(args, IF Head(args) \in SudoArgOptions THEN 2 ELSE 1))
    ELSE Some(Head(args))

RECURSIVE FirstAfterAssignments(_)
FirstAfterAssignments(args) ==
    IF args = <<>> THEN None
    ELSE IF IdentEquals(Head(args)) THEN FirstAfterAssignments(Tail(args))
    ELSE Some(Head(args))

RECURSIVE EnvWrapped(_)
EnvWrapped(args) ==
    IF args = <<>> THEN None
    ELSE IF Head(args) = <<"-","-">> THEN FirstAfterAssignments(Tail(args))
    ELSE IF Head(args) # <<>> /\ Head(args)[1] = "-"
         THEN EnvWrapped(Drop(args, IF Head(args) \in EnvArgOptions THEN 2 ELSE 1))
    ELSE IF IdentEquals(Head(args)) THEN EnvWrapped(Tail(args))
    ELSE Some(Head(args))

\* C5: for env the wrapped command is the first word reached after skipping
\* words starting with "-" (-u and --unset also consume the next word),
\* assignment words, and one "--" after which only assignment words are
\* skipped; when the words are exhausted only env is reported.
C5_EnvRule ==
    [][Resolved /\ HasCommandName(words) /\ CommandName(words) = w_env =>
        out' = out \o <<w_env>> \o EnvWrapped(CommandArgs(words))]_vars

\* env -- F=1 -i: after "--" the assignment is skipped and -i is reported
C5_Witness ==
    /\ pc = "resolved"
    /\ words = <<w_env, DashDash, w_assign, w_dash_i>>
    /\ out = <<w_x, w_env, w_dash_i>>

----------------------------------------------------------------------------
(* Properties of the extractor *)

Range(f) == {f[k] : k \in DOMAIN f}
Count(f, x) == Cardinality({k \in DOMAIN f : f[k] = x})
IsList(v) == DOMAIN v = 1..Len(v)

ParseFailures == Count(events, "parse failed")

StageNames(ws) ==
    IF HasCommandName(ws)
    THEN <<CommandName(ws)>>
             \o (IF CommandName(ws) \in _WRAPPERS
                 THEN _infer_wrapped_command(CommandName(ws), CommandArgs(ws))
                 ELSE <<>>)
    ELSE <<>>

PipelineNames(st) == Flatten([k \in 1..Len(st) |-> StageNames(st[k])])

C8_RetryOnce ==
    bashlex =>
        /\ Len(parsed) <= 2
        /\ Len(parsed) >= 1 => parsed[1] = cmdline
        /\ Len(parsed) = 2 =>
              /\ events[1] = "parse failed"
              /\ parsed[2] = dedent(NormalizeHeredocs(cmdline, 1))
        /\ (events # <<>> /\ events[1] = "parsed") => Len(parsed) = 1
        /\ ParseFailures = 2 => pc = "returned" /\ result = <<>>
        /\ tokens = <<>>
        /\ Range(events) \cap {"tokenized", "ValueError"} = {}

\* both parses of an indented heredoc line failed:   ls <<'E'
C8_Witness ==
    /\ pc = "returned"
    /\ bashlex
    /\ cmdline = <<" ", " ", "l", "s", " ", "<", "<", "'", "E", "'">>
    /\ parsed = <<cmdline, <<"l", "s", " ", "<", "<", "E">>>>
    /\ events = <<"parse failed", "parse failed">>
    /\ result = <<>>

\* position k of the token list is the target of a redirection operator
RECURSIVE IsTarget(_, _)
IsTarget(toks, k) ==
    k > 1 /\ toks[k - 1] \in _REDIRECTION_TOKENS /\ ~IsTarget(toks, k - 1)

IsFlush(toks, k) == toks[k] \in _COMMAND_SEPARATORS /\ ~IsTarget(toks, k)

IsAccumulated(toks, k) ==
    /\ ~IsTarget(toks, k)
    /\ toks[k] \notin _COMMAND_SEPARATORS \cup _REDIRECTION_TOKENS
                          \cup _NON_COMMAND_TOKENS

\* the accumulator flushed at position e (a separator or the end of input),
\* the previous flush being at position b
RECURSIVE Accumulator(_, _, _)
Accumulator(toks, b, e) ==
    IF b + 1 >= e THEN <<>>
    ELSE (IF IsAccumulated(toks, b + 1) THEN <<toks[b + 1]>> ELSE <<>>)
             \o Accumulator(toks, b + 1, e)

\* the flush positions after b, in order, the end of input last
NextFlush(toks, b) ==
    IF \E k \in (b + 1)..Len(toks) : IsFlush(toks, k)
    THEN CHOOSE k \in (b + 1)..Len(toks) :
             IsFlush(toks, k) /\ \A n \in (b + 1)..(k - 1) : ~IsFlush(toks, n)
    ELSE Len(toks) + 1

RECURSIVE FlushedNames(_, _)
FlushedNames(toks, b) ==
    LET e == NextFlush(toks, b) IN
    _append_command_words(Accumulator(toks, b, e), <<>>)
        \o (IF e > Len(toks) THEN <<>> ELSE FlushedNames(toks, e))

\* C9: the output of the fallback path is the concatenation, in order, of the
\* resolver's results for the accumulator flushed at each separator and at
\* the end of input; the accumulator holds the tokens since the last flush
\* that are no marker, no redirection operator and no redirection target.
C9_FlushAtSeparators ==
    pc = "returned" => result = FlushedNames(tokens, 0)

\* ls > | sudo: the separator is consumed as the target, sudo is an argument
C9_Witness ==
    /\ pc = "returned"
    /\ tokens = <<w_ls, <<">">>, <<"|">>, w_sudo>>
    /\ result = <<w_ls>>

\* the nodes reachable from a node through its fields
RECURSIVE NodesUnder(_)
NodesUnder(node) ==
    {node} \cup UNION {NodesUnder(c) : c \in Range(_iter_children(node))}

CommandsUnder(node) == {n \in NodesUnder(node) : KindIs(n, "command")}
CommandsOf(ts) == UNION {CommandsUnder(ts[k]) : k \in 1..Len(ts)}
FirstVisit(id) == CHOOSE k \in 1..Len(visits) : visits[k] = id /\ \A n \in 1..(k - 1) : visits[n] # id
NodeOf(ts, id) == CHOOSE n \in CommandsOf(ts) : n.id = id
NamesOf(node) == _handle_command_node(node, WalkState(<<>>, <<>>)).out

\* C10: every simple-command node reachable through node fields is resolved
\* exactly once; its names are appended before those of the simple commands
\* among its descendants; the top-level trees are processed in order.
C10_PreorderOnce ==
    pc = "returned" =>
        /\ \A n \in CommandsOf(trees) : Count(visits, n.id) = 1
        /\ \A p \in CommandsOf(trees) : \A c \in CommandsUnder(p) \ {p} :
              FirstVisit(p.id) < FirstVisit(c.id)
        /\ \A i \in 1..Len(trees) : \A j \in (i + 1)..Len(trees) :
              \A a \in CommandsUnder(trees[i]) : \A b \in CommandsUnder(trees[j]) :
                  FirstVisit(a.id) < FirstVisit(b.id)
        /\ out = Flatten([k \in 1..Len(visits) |-> NamesOf(NodeOf(trees, visits[k]))])

----------------------------------------------------------------------------
(* InteractiveAgent.execute_actions, interactive.py lines 98-183 *)

slash_u == <<"/", "u">>
slash_c == <<"/", "c">>
slash_y == <<"/", "y">>
slash_h == <<"/", "h">>
slash_m == <<"/", "m">>
w_rm == <<"r", "m">>
w_no == <<"n", "o">>

_MODE_COMMANDS_MAPPING ==
    [c \in {slash_u, slash_c, slash_y} |->
        IF c = slash_u THEN "human" ELSE IF c = slash_c THEN "confirm" ELSE "yolo"]

\* str.strip()
StripChars == {" ", "\t", "\n", "\r", "\f"}

RECURSIVE lstrip(_)
lstrip(s) ==
    IF s # <<>> /\ Head(s) \in StripChars THEN lstrip(Tail(s)) ELSE s

RECURSIVE rstrip(_)
rstrip(s) ==
    IF s # <<>> /\ s[Len(s)] \in StripChars
    THEN rstrip(SubSeq(s, 1, Len(s) - 1))
    ELSE s

strip(s) == rstrip(lstrip(s))

\* re.match(r, action) for a pattern without metacharacters
re_match(r, action) == startswith(action, r)

_should_ask_confirmation(action) ==
    /\ mode = "confirm"
    /\ ~\E k \in 1..Len(whitelist_actions) : re_match(whitelist_actions[k], action)

\* mutant: the prompt is skipped as soon as one command needs no confirmation
NoConfirmationNeeded_some(cmds) ==
    \E k \in 1..Len(cmds) : ~_should_ask_confirmation(cmds[k])

\* line 140: not any(self._should_ask_confirmation(c) for c in commands)
NoConfirmationNeeded(cmds) ==
    ~\E k \in 1..Len(cmds) : _should_ask_confirmation(cmds[k])

\* one round of _prompt_and_handle_slash_commands on the typed line: what
\* follows (the multiline prompt, the same prompt again, or the return), the
\* mode it leaves and the text it returns
PromptRound(next, m, input) == [next |-> next, mode |-> m, input |-> input]

_prompt_and_handle_slash_commands(user_input) ==
    IF user_input = slash_m THEN PromptRound("multiline", mode, <<>>)
    ELSE IF user_input = slash_h THEN PromptRound("prompt", mode, <<>>)
    ELSE IF user_input \in DOMAIN _MODE_COMMANDS_MAPPING
         THEN IF mode = _MODE_COMMANDS_MAPPING[user_input]
              THEN PromptRound("prompt", mode, <<>>)
              ELSE PromptRound("return", _MODE_COMMANDS_MAPPING[user_input],
                               user_input)
    ELSE PromptRound("return", mode, user_input)

MaxCommands == 2

Modes == {"human", "confirm", "yolo"}
TypedLines ==
    {<<>>, slash_y, slash_u, slash_c, slash_h, slash_m, w_no, <<" ">>,
     <<" ">> \o slash_y, slash_u \o <<" ">>}
MultilineTexts == {<<>>, <<"\n">>, slash_y, slash_u, slash_c, w_no \o <<"\n">>}
CommandTexts == {w_ls, w_rm}
Whitelists == {<<>>, <<w_ls>>}

InitAgent ==
    /\ pc = "execute_actions"
    /\ mode \in Modes
    /\ whitelist_actions \in Whitelists
    /\ confirm_exit \in BOOLEAN
    /\ commands \in SeqsUpTo(CommandTexts, MaxCommands)
    /\ answer = None
    /\ asked = FALSE
    /\ handled = 0
    /\ executed = 0
    /\ interrupted = None
    /\ IdleResolver
    /\ IdleExtractor

\* execute_actions up to the prompt of _ask_confirmation_or_interrupt
ExecuteActions ==
    /\ pc = "execute_actions"
    /\ IF NoConfirmationNeeded(commands)
       THEN pc' = "actions" /\ asked' = asked
       ELSE pc' = "confirm" /\ asked' = TRUE
    /\ UNCHANGED <<mode, whitelist_actions, confirm_exit, commands, answer,
                   handled, executed, interrupted>>
    /\ UNCHANGED <<words, out>>
    /\ UNCHANGED extractorVars

\* lines 147-156: the match on the stripped answer
ConfirmationAnswer(user_input) ==
    /\ answer' = Some(user_input)
    /\ IF user_input \in {<<>>, slash_y}
       THEN pc' = "actions" /\ interrupted' = interrupted
       ELSE pc' = "interrupted" /\ interrupted' = Some("UserRejection")

\* the user types a line at the confirmation prompt
Confirm ==
    /\ pc = "confirm"
    /\ \E typed \in TypedLines :
         LET round == _prompt_and_handle_slash_commands(typed) IN
         /\ mode' = round.mode
         /\ IF round.next = "return"
            THEN ConfirmationAnswer(strip(round.input))
            ELSE /\ pc' = (IF round.next = "multiline"
                           THEN "confirm multiline" ELSE "confirm")
                 /\ UNCHANGED <<answer, interrupted>>
    /\ UNCHANGED <<whitelist_actions, confirm_exit, commands, asked, handled,
                   executed>>
    /\ UNCHANGED <<words, out>>
    /\ UNCHANGED extractorVars

\* the user ends the multiline prompt opened by /m
ConfirmMultiline ==
    /\ pc = "confirm multiline"
    /\ \E text \in MultilineTexts : ConfirmationAnswer(strip(text))
    /\ UNCHANGED <<mode, whitelist_actions, confirm_exit, commands, asked,
                   handled, executed>>
    /\ UNCHANGED <<words, out>>
    /\ UNCHANGED extractorVars

\* one turn of the loop of lines 105-106; the action is run, refused by the
\* tool policy, or its run raises Submitted
ExecuteAction ==
    /\ pc = "actions"
    /\ handled < Len(commands)
    /\ handled' = handled + 1
    /\ \E outcome \in {"run", "refused", "Submitted"} :
         /\ executed' = (IF outcome = "refused" THEN executed ELSE executed + 1)
         /\ pc' = (IF outcome # "Submitted" THEN "actions"
                   ELSE IF confirm_exit THEN "exit" ELSE "submitted")
    /\ UNCHANGED <<mode, whitelist_actions, confirm_exit, commands, answer,
                   asked, interrupted>>
    /\ UNCHANGED <<words, out>>
    /\ UNCHANGED extractorVars

\* the loop is over, the observation messages are added (lines 109-113)
ReturnObservations ==
    /\ pc = "actions"
    /\ handled = Len(commands)
    /\ pc' = "done"
    /\ UNCHANGED agentVars
    /\ UNCHANGED <<words, out>>
    /\ UNCHANGED extractorVars

\* lines 125-131: the match on the stripped answer to the exit prompt
ExitAnswer(user_input) ==
    IF user_input = slash_u
    THEN pc' = "interrupted" /\ interrupted' = Some("UserInterruption")
    ELSE IF user_input \in DOMAIN _MODE_COMMANDS_MAPPING
    THEN pc' = "exit" /\ interrupted' = interrupted
    ELSE IF user_input # <<>>
    THEN pc' = "interrupted" /\ interrupted' = Some("UserNewTask")
    ELSE pc' = "submitted" /\ interrupted' = interrupted

\* _check_for_new_task_or_submit: the user types a line at the exit prompt
CheckForNewTaskOrSubmit ==
    /\ pc = "exit"
    /\ \E typed \in TypedLines :
         LET round == _prompt_and_handle_slash_commands(typed) IN
         /\ mode' = round.mode
         /\ IF round.next = "return"
            THEN ExitAnswer(strip(round.input))
            ELSE /\ pc' = (IF round.next = "multiline"
                           THEN "exit multiline" ELSE "exit")
                 /\ interrupted' = interrupted
    /\ UNCHANGED <<whitelist_actions, confirm_exit, commands, answer, asked,
                   handled, executed>>
    /\ UNCHANGED <<words, out>>
    /\ UNCHANGED extractorVars

ExitMultiline ==
    /\ pc = "exit multiline"
    /\ \E text \in MultilineTexts : ExitAnswer(strip(text))
    /\ UNCHANGED <<mode, whitelist_actions, confirm_exit, commands, answer,
                   asked, handled, executed>>
    /\ UNCHANGED <<words, out>>
    /\ UNCHANGED extractorVars

NextAgent ==
    \/ ExecuteActions
    \/ Confirm
    \/ ConfirmMultiline
    \/ ExecuteAction
    \/ ReturnObservations
    \/ CheckForNewTaskOrSubmit
    \/ ExitMultiline

SpecAgent == InitAgent /\ [][NextAgent]_vars

----------------------------------------------------------------------------
(* Properties of the agent *)

AllWhitelisted ==
    \A k \in 1..Len(commands) :
        \E n \in 1..Len(whitelist_actions) :
            re_match(whitelist_actions[n], commands[k])

ConfirmationPrompt == {"confirm", "confirm multiline"}

\* C7: an action of the message is run only when every command matches a
\* whitelist pattern, or the mode is not confirm and no confirmation was
\* asked, or the final answer to the confirmation prompt was Enter or /y; any
\* other final answer raises the interruption with no action run; in human
\* and yolo mode the confirmation prompt is not shown.
C7_ConfirmBeforeExecute ==
    /\ [](interrupted = Some("UserRejection") => executed = 0 /\ pc = "interrupted")
    /\ [][/\ executed' > executed =>
                \/ AllWhitelisted
                \/ mode # "confirm" /\ ~asked
                \/ answer \in {Some(<<>>), Some(slash_y)}
          /\ (pc \in ConfirmationPrompt /\ pc' \notin ConfirmationPrompt
                 /\ answer' \notin {Some(<<>>), Some(slash_y)}) =>
                interrupted' = Some("UserRejection") /\ executed' = 0
          /\ (pc = "execute_actions" /\ mode \in {"human", "yolo"}) =>
                ~asked' /\ pc' \notin ConfirmationPrompt]_vars

\* in confirm mode with rm not whitelisted the user answered /y and both
\* actions were run
C7_Witness ==
    /\ pc = "done"
    /\ commands = <<w_ls, w_rm>>
    /\ whitelist_actions = <<w_ls>>
    /\ asked
    /\ answer = Some(slash_y)
    /\ mode = "yolo"
    /\ executed = 2

====
